---- MODULE Spec2Model ----
(***************************************************************************)
(* A model of bq_cli.py: the table-id resolver, the row normalisation of   *)
(* upload_to_bigquery and the step sequence of main.                       *)
(*                                                                         *)
(* A Python str is a sequence of one-character strings, so that            *)
(* str.split(".") and the f-string that builds full_table_id are computed. *)
(* An Optional[str] is a record [none, s]; None is [none |-> TRUE].        *)
(***************************************************************************)
EXTENDS Integers, Sequences, FiniteSets, TLC

VARIABLES
    args,          \* the command line of the run (main's parameters)
    pc,            \* main's position
    exitCode,      \* the process exit status, -1 while running
    uncaught,      \* TRUE when the run ended through an exception nobody caught
    failure,       \* [stage, kind] of the error that ended the run
    target,        \* (project_id, dataset_id, table_name, full_table_id)
    ops,           \* the external operations performed so far, in order
    sql,           \* the statement generated by the create stage
    probeOutcome,  \* the warehouse's answer to table_exists' get_table
    df,            \* the DataFrame of the full CSV read
    loadJob,       \* what was submitted to load_table_from_dataframe
    resolveIn,     \* arguments of a direct call of the resolver
    resolveOut,    \* its result
    normIn,        \* arguments of a direct call of the normalisation
    normOut        \* its result

runVars == <<args, pc, exitCode, uncaught, failure, target, ops, sql,
             probeOutcome, df, loadJob>>
resolveVars == <<resolveIn, resolveOut>>
normVars == <<normIn, normOut>>
vars == <<runVars, resolveVars, normVars>>

---------------------------------------------------------------------------
(* Bounds *)

MaxLocatorLen == 5
MaxRows == 2

---------------------------------------------------------------------------
(* Python values *)

None == [none |-> TRUE, s |-> <<>>]
Some(s) == [none |-> FALSE, s |-> s]
\* bool(x) of an Optional[str]: None and "" are falsy
Truthy(o) == ~o.none /\ o.s # <<>>

Dot == "."

\* str.split("."): one segment per separator plus one; segments may be empty
RECURSIVE SplitFrom(_, _, _)
SplitFrom(s, i, cur) ==
    IF i > Len(s) THEN <<cur>>
    ELSE IF s[i] = Dot THEN <<cur>> \o SplitFrom(s, i + 1, <<>>)
    ELSE SplitFrom(s, i + 1, Append(cur, s[i]))

split(s) == SplitFrom(s, 1, <<>>)

---------------------------------------------------------------------------
(* parse_table_id_using_defaults *)

Resolved(p, d, t) ==
    [ok |-> TRUE, project |-> p, dataset |-> d, table |-> t, err |-> "none"]
\* raise ValueError(...): the three messages, named after the error they report
ValueError(kind) ==
    [ok |-> FALSE, project |-> <<>>, dataset |-> <<>>, table |-> <<>>, err |-> kind]

\* a resolver whose one-segment form does not require the default dataset
parse_without_dataset_check(table_id, default_project, default_dataset) ==
    LET parts == split(table_id) IN
    IF Len(parts) = 3 THEN Resolved(parts[1], parts[2], parts[3])
    ELSE IF Len(parts) = 2 THEN
        IF ~Truthy(default_project) THEN ValueError("MissingProject")
        ELSE Resolved(default_project.s, parts[1], parts[2])
    ELSE IF Len(parts) = 1 THEN
        IF ~Truthy(default_project) THEN ValueError("MissingDefaults")
        ELSE Resolved(default_project.s, default_dataset.s, parts[1])
    ELSE ValueError("InvalidLocatorFormat")

parse_table_id_using_defaults(table_id, default_project, default_dataset) ==
    LET parts == split(table_id) IN
    IF Len(parts) = 3 THEN Resolved(parts[1], parts[2], parts[3])
    ELSE IF Len(parts) = 2 THEN
        IF ~Truthy(default_project) THEN ValueError("MissingProject")
        ELSE Resolved(default_project.s, parts[1], parts[2])
    ELSE IF Len(parts) = 1 THEN
        IF ~Truthy(default_project) \/ ~Truthy(default_dataset)
        THEN ValueError("MissingDefaults")
        ELSE Resolved(default_project.s, default_dataset.s, parts[1])
    ELSE ValueError("InvalidLocatorFormat")

---------------------------------------------------------------------------
(* DataFrames *)
(* A frame is [columns, rows]: the ordered column labels and, per row, a   *)
(* function from the labels to cells.  A cell is a str object, the float   *)
(* NaN that read_csv puts for a missing value, or the None that            *)
(* df[col] = None puts.                                                    *)

StrCell(s) == [kind |-> "str", s |-> s]
NaNCell == [kind |-> "nan", s |-> <<>>]
NoneCell == [kind |-> "None", s |-> <<>>]

Range(seq) == {seq[i] : i \in 1..Len(seq)}

\* str(value), as astype(str) applies it to each cell
str(cell) ==
    CASE cell.kind = "str" -> cell.s
      [] cell.kind = "nan" -> <<"n", "a", "n">>
      [] cell.kind = "None" -> <<"N", "o", "n", "e">>

\* the to_replace list of df_filtered.replace([...], None)
NullMarkers ==
    { <<"N", "a", "n">>, <<"N", "a", "N">>, <<"n", "a", "n">>,
      <<"N", "o", "n", "e">> }

\* for col in bq_columns: if col not in df.columns: df[col] = None
RECURSIVE AddMissing(_, _, _)
AddMissing(frame, bq_columns, i) ==
    IF i > Len(bq_columns) THEN frame
    ELSE LET col == bq_columns[i] IN
         IF col \in Range(frame.columns)
         THEN AddMissing(frame, bq_columns, i + 1)
         ELSE AddMissing(
                [columns |-> Append(frame.columns, col),
                 rows |-> [r \in 1..Len(frame.rows) |->
                             [c \in Range(frame.columns) \cup {col} |->
                                 IF c = col THEN NoneCell ELSE frame.rows[r][c]]]],
                bq_columns, i + 1)

\* df[bq_columns].copy()
Select(frame, bq_columns) ==
    [columns |-> bq_columns,
     rows |-> [r \in 1..Len(frame.rows) |->
                 [c \in Range(bq_columns) |-> frame.rows[r][c]]]]

\* .astype(str)
AsTypeStr(frame) ==
    [columns |-> frame.columns,
     rows |-> [r \in 1..Len(frame.rows) |->
                 [c \in Range(frame.columns) |-> StrCell(str(frame.rows[r][c]))]]]

\* .replace(["Nan", "NaN", "nan", "None"], None)
Replace(frame) ==
    [columns |-> frame.columns,
     rows |-> [r \in 1..Len(frame.rows) |->
                 [c \in Range(frame.columns) |->
                     IF frame.rows[r][c].s \in NullMarkers
                     THEN NoneCell ELSE frame.rows[r][c]]]]

\* a normalisation without the df[bq_columns] projection
NormalizeUnfiltered(frame, bq_columns) ==
    Replace(AsTypeStr(AddMissing(frame, bq_columns, 1)))

\* upload_to_bigquery, from the schema to the frame handed to the load
Normalize(frame, bq_columns) ==
    Replace(AsTypeStr(Select(AddMissing(frame, bq_columns, 1), bq_columns)))

---------------------------------------------------------------------------
(* The inputs of a run *)

Modes == {"create", "upload", "both", "merge"}
CsvArgs == {None, Some(<<>>), Some(<<"f">>)}
TableIdArgs ==
    { None, Some(<<>>), Some(<<"t">>), Some(<<"d", ".", "t">>),
      Some(<<"p", ".", "d", ".", "t">>), Some(<<"d", ".">>),
      Some(<<"p", ".", ".", "t">>), Some(<<"a", ".", "p", ".", "d", ".", "t">>) }
ProjectArgs == {None, Some(<<"q">>)}
DatasetArgs == {None, Some(<<>>), Some(<<"d">>)}
TableNameArgs == {None, Some(<<>>), Some(<<"t">>)}

Args ==
    [mode : Modes, csv : CsvArgs, table_id : TableIdArgs, project_id : ProjectArgs,
     dataset : DatasetArgs, table_name : TableNameArgs,
     replace : BOOLEAN, print_sql : BOOLEAN]

\* what the files and the warehouse may hold
HeaderSamples == {<<"a">>, <<"a", "b">>}
SchemaSamples == {<<"a", "b", "c">>, <<"b">>}
DfSamples ==
    { [columns |-> <<"a", "b">>,
       rows |-> << [a |-> StrCell(<<"x">>), b |-> NaNCell] >>],
      [columns |-> <<"a">>, rows |-> <<>>] }

NoFailure == [stage |-> "none", op |-> "none", exc |-> "none"]
NoTarget ==
    [project |-> <<>>, dataset |-> <<>>, table |-> <<>>, full |-> <<>>]
NoSql == [verb |-> "none", table |-> <<>>, columns |-> <<>>]
NoFrame == [columns |-> <<>>, rows |-> <<>>]
NoLoad == [table |-> <<>>, write_disposition |-> "none", frame |-> NoFrame]
NoCall == ValueError("not called")

IdleRun ==
    /\ args = [mode |-> "both", csv |-> None, table_id |-> None,
               project_id |-> None, dataset |-> None, table_name |-> None,
               replace |-> FALSE, print_sql |-> FALSE]
    /\ pc = "idle"
    /\ exitCode = -1
    /\ uncaught = FALSE
    /\ failure = NoFailure
    /\ target = NoTarget
    /\ ops = <<>>
    /\ sql = NoSql
    /\ probeOutcome = "none"
    /\ df = NoFrame
    /\ loadJob = NoLoad

IdleResolve ==
    /\ resolveIn = [table_id |-> <<>>, default_project |-> None,
                    default_dataset |-> None]
    /\ resolveOut = NoCall

IdleNorm ==
    /\ normIn = [frame |-> NoFrame, bq_columns |-> <<>>]
    /\ normOut = [done |-> FALSE, frame |-> NoFrame]

---------------------------------------------------------------------------
(* main *)

Init ==
    /\ args \in Args
    /\ pc = "validate_mode"
    /\ exitCode = -1
    /\ uncaught = FALSE
    /\ failure = NoFailure
    /\ target = NoTarget
    /\ ops = <<>>
    /\ sql = NoSql
    /\ probeOutcome = "none"
    /\ df = NoFrame
    /\ loadJob = NoLoad
    /\ IdleResolve
    /\ IdleNorm

\* the exception classes of google.api_core that main's handlers name
IsBadRequest(exc) == exc = "BadRequest"
IsGoogleAPICallError(exc) == exc \in {"BadRequest", "NotFound", "GoogleAPICallError"}

\* typer.Exit(code) and sys.exit(code)
Exit(code, stage, op, exc) ==
    /\ pc' = "exited"
    /\ exitCode' = code
    /\ uncaught' = FALSE
    /\ failure' = [stage |-> stage, op |-> op, exc |-> exc]

\* an exception no handler of main names: the interpreter prints the
\* traceback and the process ends with status 1
Uncaught(stage, op, exc) ==
    /\ pc' = "exited"
    /\ exitCode' = 1
    /\ uncaught' = TRUE
    /\ failure' = [stage |-> stage, op |-> op, exc |-> exc]

\* main returns
Return ==
    /\ pc' = "exited"
    /\ exitCode' = 0
    /\ UNCHANGED <<uncaught, failure>>

Goto(next) ==
    /\ pc' = next
    /\ UNCHANGED <<exitCode, uncaught, failure>>

ValidateMode ==
    /\ pc = "validate_mode"
    /\ IF args.mode \notin {"create", "upload", "both"}
       THEN Exit(1, "args", "mode", "Exit")
       ELSE Goto("validate_csv")
    /\ UNCHANGED <<args, target, ops, sql, probeOutcome, df, loadJob>>
    /\ UNCHANGED <<resolveVars, normVars>>

ValidateCsv ==
    /\ pc = "validate_csv"
    /\ IF args.mode \in {"create", "upload", "both"} /\ ~Truthy(args.csv)
       THEN Exit(1, "args", "csv", "Exit")
       ELSE Goto("create_client")
    /\ UNCHANGED <<args, target, ops, sql, probeOutcome, df, loadJob>>
    /\ UNCHANGED <<resolveVars, normVars>>

CreateClient ==
    /\ pc = "create_client"
    /\ \E outcome \in {"ok", "Exception"} :
         IF outcome = "ok"
         THEN Goto("resolve")
         ELSE Exit(1, "client", "Client", outcome)
    /\ UNCHANGED <<args, target, ops, sql, probeOutcome, df, loadJob>>
    /\ UNCHANGED <<resolveVars, normVars>>

\* client.project when --project-id is not given: the environment's project
ClientProject == <<"e">>

\* f"{project_id}.{dataset_id}.{table_name}"
FullTableId(p, d, t) == p \o <<Dot>> \o d \o <<Dot>> \o t

MakeTarget(p, d, t) ==
    [project |-> p, dataset |-> d, table |-> t, full |-> FullTableId(p, d, t)]

FirstStage ==
    IF args.mode \in {"create", "both"} THEN "create_header" ELSE "upload_probe"

Resolve ==
    /\ pc = "resolve"
    /\ LET default_project ==
               IF Truthy(args.project_id) THEN args.project_id
               ELSE Some(ClientProject)
       IN  IF Truthy(args.table_id)
           THEN LET r == parse_table_id_using_defaults(
                             args.table_id.s, default_project, args.dataset)
                IN  IF r.ok
                    THEN /\ target' = MakeTarget(r.project, r.dataset, r.table)
                         /\ Goto(FirstStage)
                    ELSE /\ Exit(2, "resolve", "parse_table_id", r.err)
                         /\ UNCHANGED target
           ELSE IF ~Truthy(args.dataset) \/ ~Truthy(args.table_name)
                THEN /\ Exit(1, "args", "locator", "Exit")
                     /\ UNCHANGED target
                ELSE /\ target' = MakeTarget(default_project.s, args.dataset.s,
                                             args.table_name.s)
                     /\ Goto(FirstStage)
    /\ UNCHANGED <<args, ops, sql, probeOutcome, df, loadJob>>
    /\ UNCHANGED <<resolveVars, normVars>>

\* generate_create_table_sql: the verb, the quoted table and one STRING
\* field per column, in the order given
generate_create_table_sql(project_id, dataset_id, table_name, columns, replace) ==
    [verb |-> IF replace THEN "CREATE OR REPLACE TABLE" ELSE "CREATE TABLE",
     table |-> FullTableId(project_id, dataset_id, table_name),
     columns |-> columns]

AfterCreate ==
    IF args.mode \in {"upload", "both"} THEN Goto("upload_probe") ELSE Return

\* a header read whose failure is reported but does not end the run
ReadHeaderAndContinue ==
    /\ pc = "create_header"
    /\ ops' = Append(ops, "get_columns_from_csv")
    /\ \E outcome \in {"ok", "Exception"} :
         IF outcome = "ok"
         THEN /\ \E columns \in HeaderSamples :
                   sql' = generate_create_table_sql(
                              target.project, target.dataset, target.table,
                              columns, args.replace)
              /\ Goto("create_exec")
         ELSE /\ pc' = "upload_probe"
              /\ failure' = [stage |-> "create", op |-> "get_columns_from_csv",
                             exc |-> outcome]
              /\ UNCHANGED <<sql, exitCode, uncaught>>
    /\ UNCHANGED <<args, target, probeOutcome, df, loadJob>>
    /\ UNCHANGED <<resolveVars, normVars>>

\* lines 210-223: the header read, the SQL generated and printed
ReadHeader ==
    /\ pc = "create_header"
    /\ ops' = Append(ops, "get_columns_from_csv")
    /\ \E outcome \in {"ok", "Exception"} :
         IF outcome = "ok"
         THEN /\ \E columns \in HeaderSamples :
                   sql' = generate_create_table_sql(
                              target.project, target.dataset, target.table,
                              columns, args.replace)
              /\ Goto("create_exec")
         ELSE /\ Exit(3, "create", "get_columns_from_csv", outcome)
              /\ UNCHANGED sql
    /\ UNCHANGED <<args, target, probeOutcome, df, loadJob>>
    /\ UNCHANGED <<resolveVars, normVars>>

\* a create stage that runs the statement whatever --print-sql says
ExecuteAlways == TRUE

\* if not print_sql:
ExecuteStatement == ~args.print_sql

\* lines 225-234: run_query under its two handlers
CreateExec ==
    /\ pc = "create_exec"
    /\ IF ExecuteStatement
       THEN /\ ops' = Append(ops, "run_query")
            /\ \E outcome \in {"ok", "BadRequest", "GoogleAPICallError", "Exception"} :
                 IF outcome = "ok" THEN AfterCreate
                 ELSE IF IsBadRequest(outcome)
                      THEN Exit(4, "create", "run_query", outcome)
                 ELSE IF IsGoogleAPICallError(outcome)
                      THEN Exit(5, "create", "run_query", outcome)
                 ELSE Uncaught("create", "run_query", outcome)
       ELSE /\ AfterCreate
            /\ UNCHANGED ops
    /\ UNCHANGED <<args, target, sql, probeOutcome, df, loadJob>>
    /\ UNCHANGED <<resolveVars, normVars>>

\* a probe that answers True whatever get_table says
table_exists_always(outcome) ==
    [raised |-> outcome \notin {"ok", "NotFound"}, value |-> TRUE]

\* table_exists: True, False on NotFound; any other exception leaves it
table_exists(outcome) ==
    [raised |-> outcome \notin {"ok", "NotFound"}, value |-> outcome = "ok"]

\* lines 238-246
UploadProbe ==
    /\ pc = "upload_probe"
    /\ ops' = Append(ops, "table_exists")
    /\ \E outcome \in {"ok", "NotFound", "GoogleAPICallError"} :
         /\ probeOutcome' = outcome
         /\ LET r == table_exists(outcome) IN
            IF r.raised THEN Uncaught("upload", "table_exists", outcome)
            ELSE IF ~r.value THEN Exit(6, "upload", "table_exists", "missing table")
            ELSE Goto("upload_read")
    /\ UNCHANGED <<args, target, sql, df, loadJob>>
    /\ UNCHANGED <<resolveVars, normVars>>

\* lines 248-253
ReadCsv ==
    /\ pc = "upload_read"
    /\ ops' = Append(ops, "read_csv")
    /\ \E outcome \in {"ok", "Exception"} :
         IF outcome = "ok"
         THEN /\ df' \in DfSamples
              /\ Goto("upload")
         ELSE /\ Exit(7, "upload", "read_csv", outcome)
              /\ UNCHANGED df
    /\ UNCHANGED <<args, target, sql, probeOutcome, loadJob>>
    /\ UNCHANGED <<resolveVars, normVars>>

\* a load that replaces the table's rows
job_config_truncate == [write_disposition |-> "WRITE_TRUNCATE"]

\* bigquery.LoadJobConfig(write_disposition=WRITE_APPEND)
job_config == [write_disposition |-> "WRITE_APPEND"]

\* the handlers of lines 258-263
UploadFailed(op, exc) ==
    IF IsBadRequest(exc) THEN Exit(8, "upload", op, exc)
    ELSE IF IsGoogleAPICallError(exc) THEN Exit(9, "upload", op, exc)
    ELSE Uncaught("upload", op, exc)

\* lines 255-263 with upload_to_bigquery: the schema fetch, the
\* normalisation, the load job and its result
Upload ==
    /\ pc = "upload"
    /\ \E fetched \in {"ok", "NotFound", "GoogleAPICallError", "Exception"} :
         IF fetched # "ok"
         THEN /\ ops' = Append(ops, "get_table")
              /\ UploadFailed("get_table", fetched)
              /\ UNCHANGED loadJob
         ELSE \E bq_columns \in SchemaSamples :
              \E loaded \in {"ok", "BadRequest", "GoogleAPICallError", "Exception"} :
                /\ ops' = ops \o <<"get_table", "load">>
                /\ loadJob' = [table |-> target.full,
                               write_disposition |-> job_config.write_disposition,
                               frame |-> Normalize(df, bq_columns)]
                /\ IF loaded = "ok" THEN Return
                   ELSE UploadFailed("load", loaded)
    /\ UNCHANGED <<args, target, sql, probeOutcome, df>>
    /\ UNCHANGED <<resolveVars, normVars>>

Next ==
    \/ ValidateMode
    \/ ValidateCsv
    \/ CreateClient
    \/ Resolve
    \/ ReadHeader
    \/ CreateExec
    \/ UploadProbe
    \/ ReadCsv
    \/ Upload

Spec == Init /\ [][Next]_vars

---------------------------------------------------------------------------
(* The resolver alone, on every locator of the bounded alphabet *)

Alphabet == {"a", "b", Dot}
Locators == UNION {[1..n -> Alphabet] : n \in 0..MaxLocatorLen}
Defaults == {None, Some(<<>>), Some(<<"p">>)}

InitResolve ==
    /\ IdleRun
    /\ IdleNorm
    /\ resolveIn \in [table_id : Locators, default_project : Defaults,
                      default_dataset : Defaults]
    /\ resolveOut = NoCall

CallResolve ==
    /\ resolveOut = NoCall
    /\ resolveOut' = parse_table_id_using_defaults(
                         resolveIn.table_id, resolveIn.default_project,
                         resolveIn.default_dataset)
    /\ UNCHANGED <<resolveIn, runVars, normVars>>

NextResolve == CallResolve

SpecResolve == InitResolve /\ [][NextResolve]_vars

---------------------------------------------------------------------------
(* The normalisation alone, on every frame of the bounded sets *)

CsvHeaders == {<<"a">>, <<"a", "b">>, <<"b", "a">>, <<"a", "d">>}
Schemas == {<<"a">>, <<"a", "b">>, <<"a", "b", "c">>, <<"b", "a">>, <<"c">>}
Cells ==
    { StrCell(<<"x">>), StrCell(<<"n", "o", "n", "e">>),
      StrCell(<<"N", "a", "N">>), NaNCell }

Frames ==
    UNION { { [columns |-> h, rows |-> r] :
                r \in UNION {[1..n -> [Range(h) -> Cells]] : n \in 0..MaxRows} }
            : h \in CsvHeaders }

InitNormalize ==
    /\ IdleRun
    /\ IdleResolve
    /\ normIn \in [frame : Frames, bq_columns : Schemas]
    /\ normOut = [done |-> FALSE, frame |-> NoFrame]

CallNormalize ==
    /\ ~normOut.done
    /\ normOut' = [done |-> TRUE,
                   frame |-> Normalize(normIn.frame, normIn.bq_columns)]
    /\ UNCHANGED <<normIn, runVars, resolveVars>>

NextNormalize == CallNormalize

SpecNormalize == InitNormalize /\ [][NextNormalize]_vars

---------------------------------------------------------------------------
(* Properties *)

Has(op) == \E i \in 1..Len(ops) : ops[i] = op
Count(op) == Cardinality({i \in 1..Len(ops) : ops[i] = op})
Before(op1, op2) ==
    \A j \in 1..Len(ops) : ops[j] = op2 => \E i \in 1..(j - 1) : ops[i] = op1
UploadOps == {"table_exists", "read_csv", "get_table", "load"}
NoUploadOps == \A i \in 1..Len(ops) : ops[i] \notin UploadOps

\* C1: when the existence probe finds no table, the run has ended with exit
\* code 6 and has performed neither the full CSV read nor the load; in mode
\* upload it has read nothing of the CSV at all.
C1_MissingTableEndsRun ==
    probeOutcome = "NotFound" =>
        /\ args.mode \in {"upload", "both"}
        /\ pc = "exited" /\ exitCode = 6 /\ ~uncaught
        /\ ~Has("read_csv") /\ ~Has("get_table") /\ ~Has("load")
        /\ loadJob = NoLoad
        /\ args.mode = "upload" => ~Has("get_columns_from_csv")

C1_Witness ==
    /\ args.mode = "upload"
    /\ probeOutcome = "NotFound"
    /\ pc = "exited"
    /\ ops = <<"table_exists">>

\* C2: every error of a run is caught by main and mapped to the exit code of
\* its stage: no run ends through an uncaught exception, a warehouse error
\* of the upload stage ends the run with 9 (8 for a BadRequest) and one of
\* the create stage with 4 or 5.
C2_EveryErrorCaught ==
    pc = "exited" =>
        /\ ~uncaught
        /\ (failure.stage = "upload" /\ IsGoogleAPICallError(failure.exc)) =>
               exitCode = IF IsBadRequest(failure.exc) THEN 8 ELSE 9
        /\ (failure.stage = "create" /\ IsGoogleAPICallError(failure.exc)) =>
               exitCode \in {4, 5}

HeaderReadFailed ==
    failure.stage = "create" /\ failure.op = "get_columns_from_csv"
StatementSyntaxError ==
    failure.stage = "create" /\ failure.op = "run_query"
    /\ failure.exc = "BadRequest"
CreateApiError ==
    failure.stage = "create" /\ failure.op = "run_query"
    /\ failure.exc = "GoogleAPICallError"

\* C3: in mode both, once the create stage has failed (header read, statement
\* syntax, API error) the run is over with exit code 3, 4 or 5 respectively
\* and no operation of the upload stage has been performed.
C3_CreateFailureIsFatal ==
    (args.mode = "both" /\ (HeaderReadFailed \/ StatementSyntaxError \/ CreateApiError)) =>
        /\ pc = "exited" /\ ~uncaught
        /\ HeaderReadFailed => exitCode = 3
        /\ StatementSyntaxError => exitCode = 4
        /\ CreateApiError => exitCode = 5
        /\ NoUploadOps
        /\ probeOutcome = "none" /\ df = NoFrame /\ loadJob = NoLoad

C3_Witness ==
    /\ args.mode = "both"
    /\ CreateApiError
    /\ exitCode = 5
    /\ ops = <<"get_columns_from_csv", "run_query">>

CountDots(s) == Cardinality({i \in 1..Len(s) : s[i] = Dot})
NoDot(s) == \A i \in 1..Len(s) : s[i] # Dot
Absent(o) == o.none \/ Len(o.s) = 0

\* C4: the resolver's result is the reference one: a locator of three
\* segments gives the segments themselves; of two, the default project and
\* the two segments, or MissingProject without a default project; of one, the
\* two defaults and the segment, or MissingDefaults when either is absent; of
\* more than three, InvalidLocatorFormat.
C4_ResolverAgrees ==
    resolveOut # NoCall =>
        LET s == resolveIn.table_id
            dp == resolveIn.default_project
            dd == resolveIn.default_dataset
            n == CountDots(s) + 1
            r == resolveOut
        IN  /\ n = 3 =>
                  /\ r.ok
                  /\ NoDot(r.project) /\ NoDot(r.dataset) /\ NoDot(r.table)
                  /\ r.project \o <<Dot>> \o r.dataset \o <<Dot>> \o r.table = s
            /\ n = 2 =>
                  IF Absent(dp) THEN ~r.ok /\ r.err = "MissingProject"
                  ELSE /\ r.ok
                       /\ r.project = dp.s
                       /\ NoDot(r.dataset) /\ NoDot(r.table)
                       /\ r.dataset \o <<Dot>> \o r.table = s
            /\ n = 1 =>
                  IF Absent(dp) \/ Absent(dd)
                  THEN ~r.ok /\ r.err = "MissingDefaults"
                  ELSE r.ok /\ r.project = dp.s /\ r.dataset = dd.s /\ r.table = s
            /\ n > 3 => ~r.ok /\ r.err = "InvalidLocatorFormat"

C4_Witness ==
    /\ resolveIn.table_id = <<"a", ".", "b">>
    /\ resolveIn.default_project = Some(<<"p">>)
    /\ resolveOut = Resolved(<<"p">>, <<"a">>, <<"b">>)

\* C5: once main has built the full table id, project, dataset and table are
\* all non-empty.
C5_ResolvedNonEmpty ==
    target # NoTarget =>
        target.project # <<>> /\ target.dataset # <<>> /\ target.table # <<>>

LowerChar(ch) ==
    CASE ch = "N" -> "n"
      [] ch = "A" -> "a"
      [] ch = "O" -> "o"
      [] ch = "E" -> "e"
      [] OTHER -> ch
Lower(s) == [i \in 1..Len(s) |-> LowerChar(s[i])]
SharedColumns == Range(normIn.bq_columns) \cap Range(normIn.frame.columns)

\* C6: every cell whose text after the cast is "nan" or "none" in any casing
\* is null in the normalised frame, and every other cell keeps its text.
C6_NullFoldingAnyCase ==
    normOut.done =>
        \A r \in 1..Len(normIn.frame.rows) : \A c \in SharedColumns :
            LET text == str(normIn.frame.rows[r][c]) IN
            IF Lower(text) \in {<<"n", "a", "n">>, <<"n", "o", "n", "e">>}
            THEN normOut.frame.rows[r][c] = NoneCell
            ELSE normOut.frame.rows[r][c] = StrCell(text)

\* C7: the normalised frame has exactly the table's columns, in the table's
\* order, and as many rows as the CSV; a column of the table that the CSV
\* lacks is null in every row, and a column they share holds the CSV's cell
\* of that row, as text or null.
C7_RowsMatchSchema ==
    normOut.done =>
        /\ normOut.frame.columns = normIn.bq_columns
        /\ Len(normOut.frame.rows) = Len(normIn.frame.rows)
        /\ \A r \in 1..Len(normOut.frame.rows) :
              /\ DOMAIN normOut.frame.rows[r] = Range(normIn.bq_columns)
              /\ \A c \in Range(normIn.bq_columns) \ Range(normIn.frame.columns) :
                    normOut.frame.rows[r][c] = NoneCell
              /\ \A c \in SharedColumns :
                    normOut.frame.rows[r][c] \in
                        {NoneCell, StrCell(str(normIn.frame.rows[r][c]))}

C7_Witness ==
    /\ normOut.done
    /\ normIn.frame.columns = <<"a", "b">>
    /\ normIn.bq_columns = <<"a", "b", "c">>
    /\ Len(normOut.frame.rows) = 2
    /\ \A r \in 1..2 : normOut.frame.rows[r]["c"] = NoneCell
    /\ normOut.frame.rows[1]["a"] = StrCell(<<"x">>)

\* C8: with --print-sql no statement is executed and the create stage only
\* reads the header; without it, a run whose create stage generated the
\* statement has executed it exactly once on leaving the stage, after the
\* header read and before every operation of the upload stage.
C8_PrintSqlSkipsExecution ==
    /\ args.print_sql => ~Has("run_query")
    /\ Count("run_query") <= 1
    /\ (sql # NoSql /\ pc # "create_exec" /\ ~args.print_sql) =>
           Count("run_query") = 1
    /\ Has("run_query") =>
           /\ args.mode \in {"create", "both"}
           /\ sql # NoSql
           /\ Before("get_columns_from_csv", "run_query")
           /\ \A i \in 1..Len(ops) : ops[i] \in UploadOps => Before("run_query", ops[i])

C8_Witness ==
    /\ args.print_sql
    /\ args.mode = "both"
    /\ sql # NoSql
    /\ exitCode = 0
    /\ ops = <<"get_columns_from_csv", "table_exists", "read_csv", "get_table", "load">>

StagesComplete ==
    /\ args.mode \in {"create", "both"} =>
           /\ Has("get_columns_from_csv")
           /\ ~args.print_sql => Has("run_query")
    /\ args.mode \in {"upload", "both"} => Has("load")

\* C9: a run exits 0 only when every stage of its mode completed without
\* error, and each failure ends it with the code of its kind: 1 for the
\* flags and the client, 2 for the resolver, 3 header read, 4 statement
\* syntax, 5 create-stage API error, 6 missing table, 7 full CSV read,
\* 8 load rejected, 9 upload-stage API error.
C9_ExitCodes ==
    pc = "exited" =>
        /\ exitCode = 0 => (failure = NoFailure /\ StagesComplete)
        /\ failure # NoFailure => exitCode # 0
        /\ failure.stage \in {"args", "client"} => exitCode = 1
        /\ failure.stage = "resolve" => exitCode = 2
        /\ HeaderReadFailed => exitCode = 3
        /\ StatementSyntaxError => exitCode = 4
        /\ CreateApiError => exitCode = 5
        /\ (failure.stage = "upload" /\ failure.exc = "missing table") => exitCode = 6
        /\ (failure.stage = "upload" /\ failure.op = "read_csv") => exitCode = 7
        /\ (failure.stage = "upload" /\ failure.op = "load" /\ IsBadRequest(failure.exc)) =>
               exitCode = 8
        /\ (failure.stage = "upload" /\ IsGoogleAPICallError(failure.exc)
              /\ ~IsBadRequest(failure.exc)) => exitCode = 9

\* C10: the load is submitted at most once, only after the probe answered
\* that the table exists and the full CSV read succeeded, and always as an
\* append; mode create performs no operation of the upload stage and mode
\* upload neither the header read nor a statement.
C10_LoadOrderAndModeGuard ==
    /\ Count("load") <= 1
    /\ Has("load") =>
           /\ probeOutcome = "ok"
           /\ df \in DfSamples
           /\ Before("table_exists", "read_csv")
           /\ Before("read_csv", "load")
           /\ Count("table_exists") = 1 /\ Count("read_csv") = 1
           /\ loadJob.write_disposition = "WRITE_APPEND"
           /\ loadJob.table = target.full
    /\ ~Has("load") => loadJob = NoLoad
    /\ args.mode = "create" => NoUploadOps
    /\ args.mode = "upload" => ~Has("get_columns_from_csv") /\ ~Has("run_query")

C10_Witness ==
    /\ args.mode = "upload"
    /\ exitCode = 0
    /\ ops = <<"table_exists", "read_csv", "get_table", "load">>
    /\ loadJob.write_disposition = "WRITE_APPEND"

====
